---- MODULE Spec2Model ----
(***************************************************************************)
(* Model of ProductRecommendationApp.py: a Streamlit script that loads a   *)
(* product table, cleans descriptions, recommends similar products with    *)
(* TF-IDF and cosine similarity, samples a random product and searches     *)
(* descriptions by keyword.                                                *)
(*                                                                         *)
(* A Python string is a sequence of one-character strings.  A missing      *)
(* value (pandas NaN) and a raised exception are one-element sequences     *)
(* whose element is no character, so they never equal a string.            *)
(***************************************************************************)
EXTENDS Integers, Sequences, FiniteSets, TLC

VARIABLES
    \* ---- the description cleaner applied to one input
    pieces,      \* the fragments the input text is built from
    raw,         \* the input: a string, or NaN
    site,        \* which copy of the cleaner ran: "selected", "random", "recommended"
    cleaned,     \* result of the first pass
    recleaned,   \* result of a second pass over cleaned
    cstate,      \* "raw", "once", "twice"
    \* ---- one call of find_related_products
    rdf,         \* the catalog passed in: a sequence of [id, description]
    rid,         \* product_id
    rn,          \* num_recommendations
    rret,        \* iloc positions of the rows of the returned frame
    rerr,        \* the exception caught and shown with st.error, or "none"
    rraised,     \* the exception the call let through to its caller, or "none"
    rstate,      \* "call", "returned"
    \* ---- one browser session of the script
    source,      \* what DATA_URL serves: [ok, rows]
    data_cache,  \* st.cache_data of load_data: [hit, df]
    rec_cache,   \* st.cache_data of find_related_products: set of [id, ret, err]
    df,          \* the module-level DataFrame of the current run
    pc,          \* position of the current run of the script
    st_errors,   \* st.error boxes shown in the current run
    exception,   \* uncaught exception that ended the current run, or "none"
    random_pick, \* position sampled by Surprise Me, 0 if not pressed
    random_description,  \* cleaned description of the random pick
    product_id,  \* value of the select box
    description, \* cleaned description of the selected product
    feedback,    \* what Submit Review wrote
    related_products,  \* positions of the rows returned to the script
    rendered,    \* cleaned descriptions of the recommended rows
    search_query,      \* text of the sidebar search box
    search_results     \* positions of the rows the search lists

cvars == <<pieces, raw, site, cleaned, recleaned, cstate>>
rvars == <<rdf, rid, rn, rret, rerr, rraised, rstate>>
svars == <<source, data_cache, rec_cache, df, pc, st_errors, exception, random_pick,
           random_description, product_id, description, feedback, related_products, rendered,
           search_query, search_results>>
vars == <<cvars, rvars, svars>>

----------------------------------------------------------------------------
(* Values that are no strings *)
NaN == <<"nan">>
AttributeError == <<"AttributeError">>
None == <<"None">>

(* Markers *)
BRBR  == <<"<","b","r",">","<","b","r",">">>
BR    == <<"<","b","r",">">>
UL    == <<"<","u","l",">">>
ULc   == <<"<","/","u","l",">">>
LI    == <<"<","l","i",">">>
LIc   == <<"<","/","l","i",">">>
NL    == "\n"

----------------------------------------------------------------------------
(* str.replace(old, new): every non-overlapping occurrence, left to right *)
RECURSIVE Replace(_, _, _)
Replace(s, old, new) ==
    IF Len(s) < Len(old) THEN s
    ELSE IF SubSeq(s, 1, Len(old)) = old
         THEN new \o Replace(SubSeq(s, Len(old) + 1, Len(s)), old, new)
         ELSE <<Head(s)>> \o Replace(Tail(s), old, new)

(* a float has no attribute 'replace' *)
IsStr(d) == d # NaN

(* the cleaner with every single '<br>' taken for a line break *)
CleanSelected_SingleBr(d) ==
    IF ~IsStr(d) THEN AttributeError
    ELSE LET d1 == Replace(d, BR, <<NL, NL>>)
             d2 == Replace(Replace(d1, UL, <<>>), ULc, <<>>)
         IN  Replace(Replace(d2, LI, <<"-", " ">>), LIc, <<NL>>)

(* lines 145-152: the selected product's description *)
CleanSelected(d) ==
    IF ~IsStr(d) THEN AttributeError
    ELSE LET d1 == Replace(d, BRBR, <<NL, NL>>)
             d2 == Replace(Replace(d1, UL, <<>>), ULc, <<>>)
         IN  Replace(Replace(d2, LI, <<"-", " ">>), LIc, <<NL>>)

(* lines 124-131: the random pick's description *)
CleanRandom(d) ==
    IF ~IsStr(d) THEN AttributeError
    ELSE LET d1 == Replace(d, BRBR, <<NL, NL>>)
             d2 == Replace(Replace(d1, UL, <<>>), ULc, <<>>)
         IN  Replace(Replace(d2, LI, <<"-", " ">>), LIc, <<NL>>)

(* the cleaner with the list containers removed before the line breaks *)
CleanRecommended_ListFirst(d) ==
    IF ~IsStr(d) THEN AttributeError
    ELSE LET d1 == Replace(Replace(d, UL, <<>>), ULc, <<>>)
             d2 == Replace(d1, BRBR, <<NL, NL>>)
         IN  Replace(Replace(d2, LI, <<"-", " ">>), LIc, <<NL>>)

(* lines 202-205: a recommended product's description *)
CleanRecommended(d) ==
    IF ~IsStr(d) THEN AttributeError
    ELSE LET d1 == Replace(d, BRBR, <<NL, NL>>)
             d2 == Replace(Replace(d1, UL, <<>>), ULc, <<>>)
         IN  Replace(Replace(d2, LI, <<"-", " ">>), LIc, <<NL>>)

CleanAt(s, d) ==
    CASE s = "selected"    -> CleanSelected(d)
      [] s = "random"      -> CleanRandom(d)
      [] s = "recommended" -> CleanRecommended(d)


----------------------------------------------------------------------------
(* Inputs of the cleaner: texts built from at most MaxPieces fragments, and *)
(* the descriptions of the documented example catalog.                      *)
MaxPieces == 3

RED  == <<"r","e","d">>
SHOE == <<"s","h","o","e">>
Fragments == {UL, ULc, LI, LIc, BR, <<"<","u">>, <<"l",">">>, RED}
WellFormedFragments == {UL, ULc, LI, LIc, BR, RED}

ExampleA == <<UL, LI, RED, LIc, LI, SHOE, LIc, ULc>>

RECURSIVE Flatten(_)
Flatten(ps) == IF ps = <<>> THEN <<>> ELSE Head(ps) \o Flatten(Tail(ps))

PieceSeqs ==
    UNION {[1..n -> Fragments] : n \in 0..MaxPieces} \cup {ExampleA}

EmptyFrame == <<>>

SessionIdle ==
    /\ source = [ok |-> FALSE, rows |-> <<>>]
    /\ data_cache = [hit |-> FALSE, df |-> EmptyFrame]
    /\ rec_cache = {}
    /\ df = EmptyFrame
    /\ pc = "idle"
    /\ st_errors = {}
    /\ exception = "none"
    /\ random_pick = 0
    /\ random_description = None
    /\ product_id = "none"
    /\ description = None
    /\ feedback = "none"
    /\ related_products = <<>>
    /\ rendered = <<>>
    /\ search_query = <<>>
    /\ search_results = <<>>

RecIdle ==
    /\ rdf = <<>>
    /\ rid = "A"
    /\ rn = 0
    /\ rret = <<>>
    /\ rerr = "none"
    /\ rraised = "none"
    /\ rstate = "idle"

InitClean ==
    /\ SessionIdle
    /\ RecIdle
    /\ pieces \in PieceSeqs
    /\ raw \in (IF pieces = <<>> THEN {NaN, <<>>} ELSE {Flatten(pieces)})
    /\ site = "none"
    /\ cleaned = None
    /\ recleaned = None
    /\ cstate = "raw"

CleanStep(s) ==
    /\ cstate = "raw"
    /\ cleaned' = CleanAt(s, raw)
    /\ site' = s
    /\ cstate' = "once"
    /\ UNCHANGED <<rvars, svars, pieces, raw, recleaned>>

CleanSelectedStep == CleanStep("selected")
CleanRandomStep == CleanStep("random")
CleanRecommendedStep == CleanStep("recommended")

CleanAgain ==
    /\ cstate = "once"
    /\ cleaned # AttributeError
    /\ recleaned' = CleanAt(site, cleaned)
    /\ cstate' = "twice"
    /\ UNCHANGED <<rvars, svars, pieces, raw, site, cleaned>>

NextClean ==
    \/ CleanSelectedStep
    \/ CleanRandomStep
    \/ CleanRecommendedStep
    \/ CleanAgain

SpecClean == InitClean /\ [][NextClean]_vars

----------------------------------------------------------------------------
(* TfidfVectorizer(stop_words="english") and cosine_similarity, lines 183-185 *)

Letters == {"a","b","c","d","e","f","g","h","i","j","k","l","m",
            "n","o","p","q","r","s","t","u","v","w","x","y","z"}
Capitals == {"A","B","C","D","E","F","G","H","I","J","K","L","M",
             "N","O","P","Q","R","S","T","U","V","W","X","Y","Z"}
ToLower ==
    [c \in Capitals |->
        CASE c = "A" -> "a" [] c = "B" -> "b" [] c = "C" -> "c" [] c = "D" -> "d"
          [] c = "E" -> "e" [] c = "F" -> "f" [] c = "G" -> "g" [] c = "H" -> "h"
          [] c = "I" -> "i" [] c = "J" -> "j" [] c = "K" -> "k" [] c = "L" -> "l"
          [] c = "M" -> "m" [] c = "N" -> "n" [] c = "O" -> "o" [] c = "P" -> "p"
          [] c = "Q" -> "q" [] c = "R" -> "r" [] c = "S" -> "s" [] c = "T" -> "t"
          [] c = "U" -> "u" [] c = "V" -> "v" [] c = "W" -> "w" [] c = "X" -> "x"
          [] c = "Y" -> "y" [] c = "Z" -> "z"]

(* str.lower() *)
Lower(s) == [i \in 1..Len(s) |-> IF s[i] \in Capitals THEN ToLower[s[i]] ELSE s[i]]

(* \w of the token pattern *)
IsWordChar(c) == c \in Letters \cup Capitals

(* token_pattern (?u)\b\w\w+\b: the maximal runs of two or more word characters *)
RECURSIVE Runs(_, _)
Runs(s, cur) ==
    IF s = <<>> THEN (IF Len(cur) >= 2 THEN <<cur>> ELSE <<>>)
    ELSE IF IsWordChar(Head(s)) THEN Runs(Tail(s), Append(cur, Head(s)))
    ELSE (IF Len(cur) >= 2 THEN <<cur>> ELSE <<>>) \o Runs(Tail(s), <<>>)

(* the words of sklearn's English stop list that the modelled texts use *)
StopWords == {<<"t","h","e">>, <<"a","n","d">>}

(* the analyzer: lower-case, tokenize, drop stop words *)
Analyze(d) ==
    SelectSeq(Runs(Lower(d), <<>>), LAMBDA t : t \notin StopWords)

(* df["description"].fillna("") *)
FillNa(d) == IF d = NaN THEN <<>> ELSE d

Docs(frame) == [i \in 1..Len(frame) |-> Analyze(FillNa(frame[i].description))]

Vocabulary(docs) == UNION {{docs[i][k] : k \in 1..Len(docs[i])} : i \in 1..Len(docs)}

Tf(t, doc) == Cardinality({k \in 1..Len(doc) : doc[k] = t})

DocFreq(t, docs) == Cardinality({i \in 1..Len(docs) : Tf(t, docs[i]) > 0})

(* 10 * ln(k), rounded, for k = 1..12 *)
Ln10 == <<0, 7, 11, 14, 16, 18, 19, 21, 22, 23, 24, 25>>

(* smooth idf, in tenths: ln((1 + n) / (1 + df)) + 1 *)
Idf(t, docs) == 10 + Ln10[1 + Len(docs)] - Ln10[1 + DocFreq(t, docs)]

(* fit_transform: the weight tf * idf of every term in every document; the *)
(* rows are left unnormalized, the cosine below divides by the norms        *)
TfidfMatrix(docs) ==
    LET idf == [t \in Vocabulary(docs) |-> Idf(t, docs)]
    IN  [i \in 1..Len(docs) |->
            [t \in Vocabulary(docs) |-> Tf(t, docs[i]) * idf[t]]]

RECURSIVE SumOver(_, _, _)
SumOver(ts, u, v) ==
    IF ts = {} THEN 0
    ELSE LET t == CHOOSE x \in ts : TRUE
         IN  u[t] * v[t] + SumOver(ts \ {t}, u, v)

(* the dot products of all pairs of rows *)
Gram(X) ==
    [i \in 1..Len(X), j \in 1..Len(X) |-> SumOver(DOMAIN X[i], X[i], X[j])]

(* a / b < c / d for a, c >= 0 and b, d > 0, without forming the products *)
RECURSIVE FracLess(_, _, _, _)
FracLess(a, b, c, d) ==
    LET q1 == a \div b
        q2 == c \div d
        r1 == a % b
        r2 == c % d
    IN  IF q1 # q2 THEN q1 < q2
        ELSE IF r2 = 0 THEN FALSE
        ELSE IF r1 = 0 THEN TRUE
        ELSE FracLess(d, r2, b, r1)

NormOr1(n) == IF n = 0 THEN 1 ELSE n

(* cosine_similarity: similarity_scores[sel][a] < similarity_scores[sel][b] *)
(* where the score is dot / (|u| |v|), and 0 for a zero vector; the squares *)
(* of the scores are compared, and the common factor |sel| is dropped       *)
SimLess(G, sel, a, b) ==
    FracLess(G[sel, a] * G[sel, a], NormOr1(G[a, a]),
             G[sel, b] * G[sel, b], NormOr1(G[b, b]))

(* argsort(): the orders of the positions that are ascending in score; the *)
(* default sort is not stable, equal scores may come in any order          *)
Orders(n) == {p \in [1..n -> 1..n] : \A i, j \in 1..n : i # j => p[i] # p[j]}

Argsort(G, sel, n) ==
    LET less == [a \in 1..n, b \in 1..n |-> SimLess(G, sel, a, b)]
    IN  {p \in Orders(n) : \A i, j \in 1..n : i < j => ~less[p[j], p[i]]}

Reverse(s) == [i \in 1..Len(s) |-> s[Len(s) + 1 - i]]

Max(a, b) == IF a > b THEN a ELSE b

(* p[-(k + 1):-1][::-1] *)
TopSlice(p, k) == Reverse(SubSeq(p, Max(Len(p) - (k + 1), 0) + 1, Len(p) - 1))

(* df[df['id'] == product_id].index: the positions with that id *)
IndexOf(pid, frame) == {i \in 1..Len(frame) : frame[i].id = pid}

Min(S) == CHOOSE x \in S : \A y \in S : x <= y

(* lines 177-191: the outcomes of one call: the rows returned, the         *)
(* exception caught (st.error) and the exception raised to the caller;     *)
(* "except Exception" catches every one and returns an empty frame         *)
find_related_products(pid, frame, num_recommendations) ==
    LET docs == Docs(frame) IN
    IF Vocabulary(docs) = {}
    THEN {[ret |-> <<>>, err |-> "ValueError", raised |-> "none"]}
    ELSE IF IndexOf(pid, frame) = {}
    THEN {[ret |-> <<>>, err |-> "IndexError", raised |-> "none"]}
    ELSE LET selected_idx == Min(IndexOf(pid, frame))
         IN  UNION {
               {[ret |-> TopSlice(p, num_recommendations), err |-> "none",
                 raised |-> "none"] :
                   p \in Argsort(similarity_scores, selected_idx, Len(frame))} :
               similarity_scores \in {Gram(TfidfMatrix(docs))}}

----------------------------------------------------------------------------
(* Inputs of find_related_products *)
MaxRows == 3
MaxTopN == 2

Ids == {"A", "B"}
AbsentId == "Z"
RedShoe == <<"r","e","d"," ","s","h","o","e">>
TheRedHat == <<"t","h","e"," ","R","e","d"," ","h","a","t">>
BlueHat == <<"b","l","u","e"," ","h","a","t">>
RecDescriptions == {NaN, RedShoe, TheRedHat, BlueHat}
Products == [id : Ids, description : RecDescriptions]
Catalogs == UNION {[1..n -> Products] : n \in 0..MaxRows}

CleanIdle ==
    /\ pieces = <<>>
    /\ raw = <<>>
    /\ site = "none"
    /\ cleaned = None
    /\ recleaned = None
    /\ cstate = "idle"

InitRec ==
    /\ CleanIdle
    /\ SessionIdle
    /\ rdf \in Catalogs
    /\ rid \in Ids \cup {AbsentId}
    /\ rn \in 1..MaxTopN
    /\ rret = <<>>
    /\ rerr = "none"
    /\ rraised = "none"
    /\ rstate = "call"

Recommend ==
    /\ rstate = "call"
    /\ \E r \in find_related_products(rid, rdf, rn) :
          /\ rret' = r.ret
          /\ rerr' = r.err
          /\ rraised' = r.raised
    /\ rstate' = "returned"
    /\ UNCHANGED <<cvars, svars, rdf, rid, rn>>

NextRec == Recommend

SpecRec == InitRec /\ [][NextRec]_vars

----------------------------------------------------------------------------
(* The script, run top to bottom on every interaction of a session *)

MaxSessionRows == 2

(* default of num_recommendations, line 178 *)
NumRecommendations == 3

TheWord == <<"t","h","e">>
SessionDescriptions == {NaN, TheWord, RedShoe}
SessionProducts == [id : Ids, description : SessionDescriptions]
Sources ==
    {[ok |-> FALSE, rows |-> <<>>]} \cup
    {[ok |-> TRUE, rows |-> r] :
        r \in UNION {[1..n -> SessionProducts] : n \in 0..MaxSessionRows}}

Queries == {<<>>, <<"R","E","D">>, <<"r",".","d">>, <<"(">>}

Init ==
    /\ CleanIdle
    /\ RecIdle
    /\ source \in Sources
    /\ data_cache = [hit |-> FALSE, df |-> EmptyFrame]
    /\ rec_cache = {}
    /\ df = EmptyFrame
    /\ pc = "load"
    /\ st_errors = {}
    /\ exception = "none"
    /\ random_pick = 0
    /\ random_description = None
    /\ product_id = "none"
    /\ description = None
    /\ feedback = "none"
    /\ related_products = <<>>
    /\ rendered = <<>>
    /\ search_query = <<>>
    /\ search_results = <<>>

(* lines 13-25: df = load_data(), memoized by st.cache_data; a failed read  *)
(* is reported with st.error and gives an empty frame, which is cached too  *)
load_data ==
    /\ pc = "load"
    /\ IF data_cache.hit
       THEN /\ df' = data_cache.df
            /\ UNCHANGED data_cache
       ELSE /\ df' = (IF source.ok THEN source.rows ELSE EmptyFrame)
            /\ data_cache' = [hit |-> TRUE, df |-> df']
    /\ st_errors' = (IF source.ok THEN st_errors ELSE st_errors \cup {"loading"})
    /\ pc' = "check"
    /\ UNCHANGED <<cvars, rvars, source, rec_cache, exception, random_pick,
                   random_description, product_id, description, feedback,
                   related_products, rendered, search_query, search_results>>

(* a test that no frame returned by load_data meets *)
IsEmpty_OnlyNone(frame) == Len(frame) < 0

(* df.empty *)
IsEmpty(frame) == Len(frame) = 0

(* lines 27-29: st.error and st.stop() on an empty frame *)
StopIfEmpty ==
    /\ pc = "check"
    /\ IF IsEmpty(df)
       THEN /\ st_errors' = st_errors \cup {"empty"}
            /\ pc' = "stopped"
       ELSE /\ pc' = "sidebar"
            /\ UNCHANGED st_errors
    /\ UNCHANGED <<cvars, rvars, source, data_cache, rec_cache, df, exception,
                   random_pick, random_description, product_id, description,
                   feedback, related_products, rendered, search_query,
                   search_results>>

(* lines 117-134: the Surprise Me button, pressed *)
SurpriseMe ==
    /\ pc = "sidebar"
    /\ \E i \in 1..Len(df) :
          LET d == CleanRandom(df[i].description) IN
          /\ random_pick' = i
          /\ IF d = AttributeError
             THEN /\ exception' = "AttributeError"
                  /\ pc' = "crashed"
                  /\ UNCHANGED random_description
             ELSE /\ random_description' = d
                  /\ pc' = "select"
                  /\ UNCHANGED exception
    /\ UNCHANGED <<cvars, rvars, source, data_cache, rec_cache, df, st_errors,
                   product_id, description, feedback, related_products,
                   rendered, search_query, search_results>>

(* line 118: the button not pressed *)
NoSurprise ==
    /\ pc = "sidebar"
    /\ pc' = "select"
    /\ UNCHANGED <<cvars, rvars, source, data_cache, rec_cache, df, st_errors,
                   exception, random_pick, random_description, product_id,
                   description, feedback, related_products, rendered,
                   search_query, search_results>>

(* df['id'].unique() *)
UniqueIds(frame) == {frame[i].id : i \in 1..Len(frame)}

(* lines 138-155: the select box, the first row with that id, its cleaned   *)
(* description                                                              *)
SelectProduct ==
    /\ pc = "select"
    /\ \E id \in UniqueIds(df) :
          LET selected_product == df[Min(IndexOf(id, df))]
              d == CleanSelected(selected_product.description)
          IN  /\ product_id' = id
              /\ IF d = AttributeError
                 THEN /\ exception' = "AttributeError"
                      /\ pc' = "crashed"
                      /\ UNCHANGED description
                 ELSE /\ description' = d
                      /\ pc' = "review"
                      /\ UNCHANGED exception
    /\ UNCHANGED <<cvars, rvars, source, data_cache, rec_cache, df, st_errors,
                   random_pick, random_description, feedback, related_products,
                   rendered, search_query, search_results>>

(* lines 159-174: rating, review text and the Submit Review button *)
SubmitReview ==
    /\ pc = "review"
    /\ \E pressed \in BOOLEAN, review \in BOOLEAN :
          feedback' = (IF ~pressed THEN "none"
                       ELSE IF review THEN "rating and review"
                       ELSE "rating only")
    /\ pc' = "recommend"
    /\ UNCHANGED <<cvars, rvars, source, data_cache, rec_cache, df, st_errors,
                   exception, random_pick, random_description, product_id,
                   description, related_products, rendered, search_query,
                   search_results>>

(* a memo that forgets which product id a result was computed for *)
CacheLookup_AnyId(cache, pid) == cache

(* the memoized results for these arguments; df and the default count are  *)
(* the same in every call of a session, so the id is the key               *)
CacheLookup(cache, pid) == {e \in cache : e.id = pid}

(* line 193: related_products = find_related_products(product_id, df),     *)
(* memoized by st.cache_data together with the st.error it showed          *)
FindRelated ==
    /\ pc = "recommend"
    /\ \E r \in (IF CacheLookup(rec_cache, product_id) # {}
                 THEN {[ret |-> e.ret, err |-> e.err, raised |-> "none"] :
                          e \in CacheLookup(rec_cache, product_id)}
                 ELSE find_related_products(product_id, df, NumRecommendations)) :
          /\ related_products' = r.ret
          /\ st_errors' = (IF r.err = "none" THEN st_errors
                           ELSE st_errors \cup {"related"})
          /\ rec_cache' = rec_cache \cup
                            {[id |-> product_id, ret |-> r.ret, err |-> r.err]}
    /\ pc' = "render"
    /\ UNCHANGED <<cvars, rvars, source, data_cache, df, exception, random_pick,
                   random_description, product_id, description, feedback,
                   rendered, search_query, search_results>>

(* lines 196-213: every recommended row with its cleaned description *)
RenderRelated ==
    /\ pc = "render"
    /\ LET ds == [k \in 1..Len(related_products) |->
                     CleanRecommended(df[related_products[k]].description)]
       IN  IF \E k \in 1..Len(ds) : ds[k] = AttributeError
           THEN /\ exception' = "AttributeError"
                /\ pc' = "crashed"
                /\ UNCHANGED rendered
           ELSE /\ rendered' = ds
                /\ pc' = "search"
                /\ UNCHANGED exception
    /\ UNCHANGED <<cvars, rvars, source, data_cache, rec_cache, df, st_errors,
                   random_pick, random_description, product_id, description,
                   feedback, related_products, search_query, search_results>>

(* re.compile of the query: of the characters modelled, '.' is a wildcard  *)
(* and an unclosed '(' is an error                                          *)
Compiles(q) == \A i \in 1..Len(q) : q[i] # "("

(* the pattern matches s at its start, ignoring case *)
MatchesAt(q, s) ==
    /\ Len(s) >= Len(q)
    /\ \A i \in 1..Len(q) :
          \/ q[i] = "." /\ s[i] # NL
          \/ Lower(<<q[i]>>) = Lower(<<s[i]>>)

(* re.search(q, s, re.IGNORECASE) *)
RegexSearch(q, s) ==
    \E k \in 0..Len(s) : MatchesAt(q, SubSeq(s, k + 1, Len(s)))

(* Series.str.contains(q, case=False, na=False), regex=True by default *)
StrContains(d, q) == IF d = NaN THEN FALSE ELSE RegexSearch(q, d)

Positions(n) == [i \in 1..n |-> i]

(* lines 217-227: the sidebar search *)
Search ==
    /\ pc = "search"
    /\ \E q \in Queries :
          /\ search_query' = q
          /\ IF q = <<>>
             THEN /\ pc' = "done"
                  /\ UNCHANGED <<search_results, exception>>
             ELSE IF ~Compiles(q)
             THEN /\ exception' = "re.error"
                  /\ pc' = "crashed"
                  /\ UNCHANGED search_results
             ELSE /\ search_results' =
                        SelectSeq(Positions(Len(df)),
                                  LAMBDA i : StrContains(df[i].description, q))
                  /\ pc' = "done"
                  /\ UNCHANGED exception
    /\ UNCHANGED <<cvars, rvars, source, data_cache, rec_cache, df, st_errors,
                   random_pick, random_description, product_id, description,
                   feedback, related_products, rendered>>

(* any interaction, or a reload of the page, runs the script again; the    *)
(* two caches outlive the run                                              *)
Rerun ==
    /\ pc \in {"done", "crashed", "stopped"}
    /\ pc' = "load"
    /\ df' = EmptyFrame
    /\ st_errors' = {}
    /\ exception' = "none"
    /\ random_pick' = 0
    /\ random_description' = None
    /\ product_id' = "none"
    /\ description' = None
    /\ feedback' = "none"
    /\ related_products' = <<>>
    /\ rendered' = <<>>
    /\ search_query' = <<>>
    /\ search_results' = <<>>
    /\ UNCHANGED <<cvars, rvars, source, data_cache, rec_cache>>

Next ==
    \/ load_data
    \/ StopIfEmpty
    \/ SurpriseMe
    \/ NoSurprise
    \/ SelectProduct
    \/ SubmitReview
    \/ FindRelated
    \/ RenderRelated
    \/ Search
    \/ Rerun

Spec == Init /\ [][Next]_vars

----------------------------------------------------------------------------
(* Properties of the cleaner *)

RECURSIVE Contains(_, _)
Contains(s, sub) ==
    IF Len(s) < Len(sub) THEN FALSE
    ELSE \/ SubSeq(s, 1, Len(sub)) = sub
         \/ Contains(Tail(s), sub)

HasMarker(s) == \E m \in {BRBR, UL, ULc, LI, LIc} : Contains(s, m)

(* C5 as stated: a second pass never changes the result of the first. *)
C5_IdempotentAllStrings ==
    cstate = "twice" => recleaned = cleaned

(* C5 amended: the cleaner leaves text without markers unchanged, and a    *)
(* second pass changes nothing whenever the first pass left no marker.     *)
C5_IdempotentOnCleanText ==
    /\ (cstate # "raw" /\ IsStr(raw) /\ ~HasMarker(raw)) => cleaned = raw
    /\ (cstate = "twice" /\ ~HasMarker(cleaned)) => recleaned = cleaned

C5_Witness ==
    /\ cstate = "twice"
    /\ HasMarker(raw)
    /\ ~HasMarker(cleaned)
    /\ recleaned = cleaned
    /\ cleaned # raw

(* C6: the cleaner never fails; empty and missing input give the empty     *)
(* string at each of the three places.                                     *)
C6_CleanerNeverFails ==
    cstate # "raw" =>
        /\ cleaned # AttributeError
        /\ (raw \in {<<>>, NaN} => cleaned = <<>>)

(* Reference for C9 on text made of whole markers and plain words: pairs   *)
(* of line breaks first, then each marker by its substitution.             *)
RECURSIVE MergeBr(_)
MergeBr(ps) ==
    IF Len(ps) < 2 THEN ps
    ELSE IF ps[1] = BR /\ ps[2] = BR
         THEN <<<<NL, NL>>>> \o MergeBr(SubSeq(ps, 3, Len(ps)))
         ELSE <<Head(ps)>> \o MergeBr(Tail(ps))

Subst(p) ==
    CASE p = UL  -> <<>>
      [] p = ULc -> <<>>
      [] p = LI  -> <<"-", " ">>
      [] p = LIc -> <<NL>>
      [] OTHER   -> p

PieceClean(ps) ==
    LET m == MergeBr(ps) IN Flatten([i \in 1..Len(m) |-> Subst(m[i])])

WellFormed(ps) == \A i \in 1..Len(ps) : ps[i] \in WellFormedFragments \cup {SHOE}

----------------------------------------------------------------------------
(* Properties of find_related_products *)

Present == IndexOf(rid, rdf) # {}
Target == Min(IndexOf(rid, rdf))
Returned(i) == \E k \in 1..Len(rret) : rret[k] = i
MinOf(a, b) == IF a < b THEN a ELSE b
Scores == Gram(TfidfMatrix(Docs(rdf)))
ScoreLess(a, b) == SimLess(Scores, Target, a, b)
SameScore(a, b) == ~ScoreLess(a, b) /\ ~ScoreLess(b, a)

(* C1: for a product id present in the catalog the returned rows never     *)
(* contain the target product itself.                                      *)
C1_NeverReturnsTarget ==
    (rstate = "returned" /\ Present) => ~Returned(Target)

(* C2: for a target present in the catalog at most top_n rows are          *)
(* returned, and exactly min(top_n, size - 1).                             *)
C2_ExactCount ==
    (rstate = "returned" /\ Present) =>
        /\ Len(rret) <= rn
        /\ Len(rret) = MinOf(rn, Len(rdf) - 1)

(* C3: the rows are in descending order of score, rows of equal score in   *)
(* catalog order, and no other product left out scores strictly higher     *)
(* than a returned one.                                                    *)
C3_RankedStable ==
    (rstate = "returned" /\ Present /\ rerr = "none") =>
        /\ \A i, j \in 1..Len(rret) :
              i < j => ~ScoreLess(rret[i], rret[j])
        /\ \A i, j \in 1..Len(rret) :
              (i < j /\ SameScore(rret[i], rret[j])) => rret[i] < rret[j]
        /\ \A x \in 1..Len(rdf), k \in 1..Len(rret) :
              (x # Target /\ ~Returned(x)) =>
                  ~ScoreLess(rret[k], x)

(* C4: a target id that is not in the catalog makes the call fail with an  *)
(* error of its own instead of returning a frame.                          *)
C4_AbsentIdRaises ==
    (rstate = "returned" /\ ~Present) => rraised # "none"

----------------------------------------------------------------------------
(* Properties of the session *)

AfterLoad == {"sidebar", "select", "review", "recommend", "render", "search",
              "done", "crashed"}

LoadFailed == data_cache.hit /\ (~source.ok \/ source.rows = <<>>)

NothingRan ==
    /\ random_pick = 0
    /\ random_description = None
    /\ product_id = "none"
    /\ description = None
    /\ feedback = "none"
    /\ related_products = <<>>
    /\ rendered = <<>>
    /\ rec_cache = {}
    /\ search_query = <<>>
    /\ search_results = <<>>
    /\ exception = "none"

(* C7: after a failed load (fetch or parse error, or zero rows) the run is *)
(* stopped with the failure shown and no later step ever runs; every step  *)
(* after the load runs on a non-empty catalog.                             *)
C7_FailedLoadIsTerminal ==
    /\ pc \in AfterLoad => (source.ok /\ Len(df) > 0 /\ df = source.rows)
    /\ LoadFailed =>
          /\ pc \in {"load", "check", "stopped"}
          /\ pc = "stopped" => "empty" \in st_errors
          /\ (pc = "stopped" /\ ~source.ok) => "loading" \in st_errors
          /\ NothingRan

C7_Witness ==
    /\ pc = "stopped"
    /\ ~source.ok
    /\ st_errors = {"loading", "empty"}
    /\ NothingRan

(* the rows a literal, case-insensitive substring search lists *)
LiteralContains(d, q) == d # NaN /\ Contains(Lower(d), Lower(q))
LiteralResults(q) ==
    IF q = <<>> THEN <<>>
    ELSE SelectSeq(Positions(Len(df)),
                   LAMBDA i : LiteralContains(df[i].description, q))

(* C8: the search lists exactly the rows whose description contains the    *)
(* query as a literal substring, ignoring case, in catalog order, for      *)
(* every query string.                                                     *)
C8_LiteralSubstringSearch ==
    (pc = "done" \/ (pc = "crashed" /\ exception = "re.error")) =>
        /\ exception = "none"
        /\ search_results = LiteralResults(search_query)

(* C10: once loaded the catalog never changes, whatever step runs and      *)
(* however it ends, and every result of a recommendation is one the        *)
(* function gives for that id on the loaded catalog, whatever ran before.  *)
C10_CatalogImmutable ==
    /\ [](data_cache.hit =>
            /\ data_cache.df = (IF source.ok THEN source.rows ELSE EmptyFrame)
            /\ pc \notin {"load"} => df = data_cache.df)
    /\ [][data_cache.hit => data_cache' = data_cache]_vars
    /\ [][pc = "recommend" =>
            \E r \in find_related_products(product_id, df, NumRecommendations) :
                /\ r.ret = related_products'
                /\ (r.err # "none") <=> ("related" \in st_errors')]_vars

C10_Witness ==
    /\ pc = "done"
    /\ \E e \in rec_cache : e.err # "none"
    /\ \E e \in rec_cache : e.id # product_id
    /\ df = source.rows
    /\ "related" \in st_errors

====
